---------------------------- MODULE Spec2Model ----------------------------
(***************************************************************************)
(* interpolate_gpx.py: main() reads a GPX tree, replaces every <trkseg> of *)
(* every <trk> by interpolate_segment(seg) and writes the tree.            *)
(*                                                                         *)
(* Representation.                                                         *)
(*  - a file is a sequence of tracks, a track the sequence of its child    *)
(*    elements, a child is [tag, pts]: tag "trkseg" with its <trkpt>       *)
(*    children, or another tag (name, extensions, ...) with pts = <<>>.    *)
(*  - a point is [lat, lon, ele, time].  lat and lon are integers in units *)
(*    of 10^-7 degree (the resolution of the "%.7f" a new point is written *)
(*    with), an elevation value is an integer in units of 0.01 m ("%.2f"). *)
(*  - a <time> text is [k, v]: k = "absent" (no element), "empty" (element *)
(*    without text), "bad" (text fromisoformat rejects) or "ok", and then  *)
(*    v is the instant in ticks of 1/TicksPerSec second.                   *)
(*  - an <ele> text is [k, v]: k = "absent" (no element or no text),       *)
(*    "bad" (text float() rejects) or "ok" with v its value.               *)
(* Arithmetic is exact (rationals as numerator/denominator); of the       *)
(* binary floating point error of the Python floats only its effect on a   *)
(* decimal tie of a written value is represented (tieUp).  Coordinates     *)
(* are taken to be texts float() accepts, and a <trkseg> to hold <trkpt>   *)
(* children only.                                                          *)
(***************************************************************************)
EXTENDS Integers, Sequences, FiniteSets

\* ---------------------------------------------------------------- bounds
TicksPerSec == 2
MaxTime == 6
MaxPts == 3
MaxLat == 1
MaxLon == 1
MaxEle == 1
MaxTracks == 2
MaxChildren == 3

VARIABLES inFile, tree, pc, ti, segs, si, changed, stderr, stdout, outFile,
          tieUp

vars == <<inFile, tree, pc, ti, segs, si, changed, stderr, stdout, outFile, tieUp>>

\* ------------------------------------------------------------ text values
T(v) == [k |-> "ok", v |-> v]
Absent == [k |-> "absent", v |-> 0]
Empty == [k |-> "empty", v |-> 0]
Bad == [k |-> "bad", v |-> 0]
NoneVal == [k |-> "none", v |-> 0]

\* ------------------------------------------------------- helper functions
\* int(x) of Python: truncation toward zero of a / b, b > 0
IntTrunc(a, b) == IF a >= 0 THEN a \div b ELSE -((-a) \div b)

\* a format that cuts the digits instead of rounding
FormatCut(num, den) == num \div den

\* format(x, ".Nf") of the value num / den (den > 0), in units of 10^-N:
\* the nearest unit.  Half a unit is no binary fraction, so on a decimal
\* tie the float lies just above or just below it and the digits follow
\* the float (0.5e-7 is written 0.0000000 and 0.005 is written 0.01):
\* tieUp is the side this run's floats fall on.
FormatFixed(num, den) ==
    LET q == num \div den
        r == num % den
    IN  IF 2 * r < den THEN q
        ELSE IF 2 * r > den THEN q + 1
        ELSE IF tieUp THEN q + 1 ELSE q

\* parse_time raises ValueError on a text fromisoformat rejects
ParseTimeRaises(t) == t.k # "ok"

parse_time(t) == t.v

\* strftime("%Y-%m-%dT%H:%M:%SZ") writes no fraction of a second
fmt_time(dt) == T((dt \div TicksPerSec) * TicksPerSec)

\* get_ele without the except ValueError branch
get_ele_unguarded(tp) == IF tp.ele.k \in {"ok", "bad"} THEN T(tp.ele.v) ELSE NoneVal

get_ele(tp) == IF tp.ele.k = "ok" THEN T(tp.ele.v) ELSE NoneVal

\* line 50 looking at the first <time> only
TimeMissingFirstOnly(cur, nxt) == cur.time.k = "absent" \/ cur.time.k = "empty"

\* line 50: the pair is skipped when either <time> is absent or has no text
TimeMissing(cur, nxt) ==
    \/ cur.time.k = "absent" \/ nxt.time.k = "absent"
    \/ cur.time.k = "empty" \/ nxt.time.k = "empty"

\* line 54: dt = int((t2 - t1).total_seconds())
GapSeconds(t1, t2) == IntTrunc(t2 - t1, TicksPerSec)

\* line 78 stepping two seconds at a time
StepTimeDouble(t1, s) == t1 + 2 * s * TicksPerSec

\* line 78: t1 + timedelta(seconds=s)
StepTime(t1, s) == t1 + s * TicksPerSec

\* lines 65-67: a + (b - a) * (s / dt), written with the given format
Lerp(a, b, s, dt) == FormatFixed(a * dt + (b - a) * s, dt)

\* lines 68, 74-76: the <ele> of a new point
LerpEle(ele1, ele2, s, dt) ==
    IF ele1.k = "none" \/ ele2.k = "none"
      THEN Absent
      ELSE T(Lerp(ele1.v, ele2.v, s, dt))

\* lines 65-78: the new point of second s
NewTp(cur, nxt, s, dt) ==
    [lat  |-> Lerp(cur.lat, nxt.lat, s, dt),
     lon  |-> Lerp(cur.lon, nxt.lon, s, dt),
     ele  |-> LerpEle(get_ele(cur), get_ele(nxt), s, dt),
     time |-> fmt_time(StepTime(parse_time(cur.time), s))]

\* lines 64-81 with range(1, dt + 1)
FillGapInclusive(cur, nxt, dt) == [s \in 1..dt |-> NewTp(cur, nxt, s, dt)]

\* lines 64-81: for s in range(1, dt)
FillGap(cur, nxt, dt) == [s \in 1..(dt - 1) |-> NewTp(cur, nxt, s, dt)]

\* line 84 with pts[0]
FirstPoint(pts) == pts[1]

\* line 84: pts[-1]
LastPoint(pts) == pts[Len(pts)]

Raised == [raised |-> TRUE, pts |-> <<>>]
Returned(pts) == [raised |-> FALSE, pts |-> pts]

\* lines 44-85: the loop over the adjacent pairs from pair i on, new_seg
\* holding what was appended so far
RECURSIVE PairLoop(_, _, _)
PairLoop(pts, i, new_seg) ==
    IF i > Len(pts) - 1
      THEN Returned(Append(new_seg, LastPoint(pts)))
      ELSE LET cur == pts[i]
               nxt == pts[i + 1]
               acc == Append(new_seg, cur)
           IN  IF TimeMissing(cur, nxt)
                 THEN PairLoop(pts, i + 1, acc)
               ELSE IF ParseTimeRaises(cur.time) \/ ParseTimeRaises(nxt.time)
                 THEN Raised
               ELSE LET dt == GapSeconds(parse_time(cur.time), parse_time(nxt.time))
                    IN  IF dt <= 1
                          THEN PairLoop(pts, i + 1, acc)
                          ELSE PairLoop(pts, i + 1, acc \o FillGap(cur, nxt, dt))

interpolate_segment(pts) ==
    IF Len(pts) < 2 THEN Returned(pts) ELSE PairLoop(pts, 1, <<>>)

\* ------------------------------------------------------------------ main
IsSeg(c) == c.tag = "trkseg"
Seg(pts) == [tag |-> "trkseg", pts |-> pts]
Other == [tag |-> "name", pts |-> <<>>]

\* Element.remove: the first child that is the element.  The segment being
\* replaced is the first not yet replaced one of its track and the new ones
\* are appended behind it, so the first child equal to it is the element.
RECURSIVE Remove(_, _)
Remove(children, x) ==
    IF children = <<>> THEN <<>>
    ELSE IF Head(children) = x THEN Tail(children)
    ELSE <<Head(children)>> \o Remove(Tail(children), x)

\* line 93: the next <trk>; line 94: the list trk.findall builds
EnterTrack ==
    /\ pc = "track"
    /\ ti <= Len(tree)
    /\ segs' = SelectSeq(tree[ti], IsSeg)
    /\ si' = 1
    /\ pc' = "seg"
    /\ UNCHANGED <<inFile, tree, ti, changed, stderr, stdout, outFile, tieUp>>

\* lines 95-99
ReplaceSegment ==
    /\ pc = "seg"
    /\ si <= Len(segs)
    /\ LET seg == segs[si]
           r == interpolate_segment(seg.pts)
       IN  /\ ~r.raised
           /\ tree' = [tree EXCEPT ![ti] = Append(Remove(@, seg), Seg(r.pts))]
    /\ changed' = TRUE
    /\ si' = si + 1
    /\ UNCHANGED <<inFile, pc, ti, segs, stderr, stdout, outFile, tieUp>>

\* line 95, interpolate_segment raising: nothing catches it, the run ends
SegmentRaises ==
    /\ pc = "seg"
    /\ si <= Len(segs)
    /\ interpolate_segment(segs[si].pts).raised
    /\ pc' = "raised"
    /\ stderr' = Append(stderr, "Traceback")
    /\ UNCHANGED <<inFile, tree, ti, segs, si, changed, stdout, outFile, tieUp>>

\* line 94 exhausted
NextTrack ==
    /\ pc = "seg"
    /\ si > Len(segs)
    /\ ti' = ti + 1
    /\ pc' = "track"
    /\ UNCHANGED <<inFile, tree, segs, si, changed, stderr, stdout, outFile, tieUp>>

\* lines 101-102
Warn ==
    /\ pc = "track"
    /\ ti > Len(tree)
    /\ ~changed
    /\ stderr' = Append(stderr, "No <trkseg> found or no changes made.")
    /\ pc' = "write"
    /\ UNCHANGED <<inFile, tree, ti, segs, si, changed, stdout, outFile, tieUp>>

\* line 101, the condition false
NoWarn ==
    /\ pc = "track"
    /\ ti > Len(tree)
    /\ changed
    /\ pc' = "write"
    /\ UNCHANGED <<inFile, tree, ti, segs, si, changed, stderr, stdout, outFile, tieUp>>

\* lines 104-105
Write ==
    /\ pc = "write"
    /\ outFile' = tree
    /\ stdout' = Append(stdout, "Interpolated GPX saved to: out_path")
    /\ pc' = "done"
    /\ UNCHANGED <<inFile, tree, ti, segs, si, changed, stderr, tieUp>>

Next ==
    \/ EnterTrack
    \/ ReplaceSegment
    \/ SegmentRaises
    \/ NextTrack
    \/ Warn
    \/ NoWarn
    \/ Write

\* ---------------------------------------------------------------- inputs
RECURSIVE SeqsUpTo(_, _)
SeqsUpTo(S, n) ==
    IF n = 0 THEN {<<>>}
    ELSE LET prev == SeqsUpTo(S, n - 1)
         IN  prev \cup {Append(q, x) : q \in {p \in prev : Len(p) = n - 1}, x \in S}

Instants == {T(v) : v \in 0..MaxTime}
TimeTexts == {Absent, Empty, Bad} \cup Instants
EleTexts == {Absent, Bad} \cup {T(v) : v \in 0..MaxEle}

\* segments of up to MaxPts points with any <time> text
GapPoints ==
    [lat : {0, MaxLat}, lon : {MaxLon}, ele : {Absent}, time : TimeTexts]
GapSegs == SeqsUpTo(GapPoints, MaxPts)

\* pairs of points with any coordinates and <ele> text
PairPoints ==
    [lat : 0..MaxLat, lon : 0..MaxLon, ele : EleTexts, time : Instants]
PairSegs == {<<p, q>> : p \in PairPoints, q \in PairPoints}

\* files of one track holding one segment, and the files without a segment
SegFiles ==
    {<< >>, << << >> >>, << <<Other>> >>}
      \cup {<< <<Seg(s)>> >> : s \in GapSegs \cup PairSegs}

\* files of several tracks, segments and other children
MainPoint(t) == [lat |-> 0, lon |-> MaxLon, ele |-> Absent, time |-> t]
MainSegs ==
    {<<>>} \cup
    {<<MainPoint(T(0)), MainPoint(t)>> :
        t \in {T(0), T(TicksPerSec), T(2 * TicksPerSec), Bad}}
MainChildren == {Other} \cup {Seg(s) : s \in MainSegs}
MainFiles == SeqsUpTo(SeqsUpTo(MainChildren, MaxChildren), MaxTracks)

\* the state at line 92, the tree parsed
InitOn(files) ==
    /\ inFile \in files
    /\ tree = inFile
    /\ pc = "track"
    /\ ti = 1
    /\ segs = <<>>
    /\ si = 1
    /\ changed = FALSE
    /\ stderr = <<>>
    /\ stdout = <<>>
    /\ outFile = <<>>
    /\ tieUp \in BOOLEAN

Init == InitOn(SegFiles)
InitMain == InitOn(MainFiles)

Spec == Init /\ [][Next]_vars
SpecMain == InitMain /\ [][Next]_vars


\* ------------------------------------------------- vocabulary of the claims
InSegs(t) == SelectSeq(inFile[t], IsSeg)
OutSegs(t) == SelectSeq(outFile[t], IsSeg)

\* P holds of every input segment and the segment written for it
ForAllSegs(P(_, _)) ==
    pc = "done" =>
        \A t \in 1..Len(inFile) :
            /\ Len(OutSegs(t)) = Len(InSegs(t))
            /\ \A k \in 1..Len(InSegs(t)) : P(InSegs(t)[k].pts, OutSegs(t)[k].pts)

\* P holds of some input segment and the segment written for it
ForSomeSeg(P(_, _)) ==
    /\ pc = "done"
    /\ \E t \in 1..Len(inFile) :
           /\ Len(OutSegs(t)) = Len(InSegs(t))
           /\ \E k \in 1..Len(InSegs(t)) : P(InSegs(t)[k].pts, OutSegs(t)[k].pts)

Present(tp) == tp.time.k = "ok"
NoTimestamp(tp) == tp.time.k \in {"absent", "empty"}
WholeSecond(tp) == Present(tp) /\ tp.time.v % TicksPerSec = 0
BothPresent(inp, i) == Present(inp[i]) /\ Present(inp[i + 1])

\* the whole seconds between the timestamps of two points
WholeGap(a, b) == (b.time.v - a.time.v) \div TicksPerSec

\* max(dt_i - 1, 0) of pair i, 0 without both timestamps
Fill(inp, i) ==
    IF BothPresent(inp, i) /\ WholeGap(inp[i], inp[i + 1]) > 1
      THEN WholeGap(inp[i], inp[i + 1]) - 1
      ELSE 0

RECURSIVE SumFill(_, _)
SumFill(inp, i) == IF i <= 0 THEN 0 ELSE SumFill(inp, i - 1) + Fill(inp, i)

\* where original point i belongs in the output
Pos(inp, i) == i + SumFill(inp, i - 1)

Abs(x) == IF x >= 0 THEN x ELSE -x

\* v is the multiple of the written unit nearest to a + (b - a) * s / dt
Nearest(v, a, b, s, dt) == 2 * Abs(v * dt - (a * dt + (b - a) * s)) <= dt

\* v is exactly a + (b - a) * s / dt
Exactly(v, a, b, s, dt) == v * dt = a * dt + (b - a) * s

\* the originals sit where the count law puts them
OriginalsInPlace(inp, out) ==
    /\ Len(inp) > 0 => Len(out) = Pos(inp, Len(inp))
    /\ \A j \in 1..Len(inp) : Pos(inp, j) <= Len(out) /\ out[Pos(inp, j)] = inp[j]

\* ------------------------------------------------------------------- C1
Preserved(inp, out) ==
    IF Len(inp) < 2 THEN out = inp
    ELSE \E S \in SUBSET (2..(Len(out) - 1)) :
           LET P == S \cup {1, Len(out)}
               Before(p) == CHOOSE a \in P : a < p /\ \A x \in P : x < p => x <= a
               After(p) == CHOOSE b \in P : b > p /\ \A x \in P : x > p => x >= b
           IN  /\ Len(out) >= 2
               /\ Cardinality(P) = Len(inp)
               /\ \A p \in P : out[p] = inp[Cardinality({q \in P : q <= p})]
               /\ \A p \in (1..Len(out)) \ P :
                      /\ Present(out[Before(p)]) /\ Present(out[After(p)])
                      /\ Present(out[p])
                      /\ out[Before(p)].time.v < out[p].time.v
                      /\ out[p].time.v < out[After(p)].time.v

\* C1: every written segment holds the input points unchanged, once each and
\* in order, the last output point is the last input point, and every other
\* output point lies between two consecutive originals, in time too.
C1_Preservation == ForAllSegs(Preserved)

C1_Case(inp, out) ==
    /\ Len(inp) = 3 /\ Len(out) > 3
    /\ Fill(inp, 1) > 0 /\ ~BothPresent(inp, 2)
C1_Witness == ForSomeSeg(C1_Case)

\* ------------------------------------------------------------------- C2
CountLaw(inp, out) == Len(out) = Len(inp) + SumFill(inp, Len(inp) - 1)

\* C2: the number of points written equals the number of input points plus
\* the sum of max(dt_i - 1, 0) over the adjacent pairs with both timestamps.
C2_CountLaw == ForAllSegs(CountLaw)

C2_Case(inp, out) ==
    /\ Len(inp) = 3 /\ Len(out) > 3
    /\ \E i \in 1..2 : ~BothPresent(inp, i)
    /\ \E i \in 1..2 : Fill(inp, i) > 1
C2_Witness == ForSomeSeg(C2_Case)

\* ------------------------------------------------------------------- C3
OneSecondApart(inp, out) ==
    \A q \in 1..(Len(out) - 1) :
        \/ /\ Present(out[q]) /\ Present(out[q + 1])
           /\ out[q + 1].time.v - out[q].time.v = TicksPerSec
        \/ \E i \in 1..(Len(inp) - 1) :
               /\ out[q] = inp[i] /\ out[q + 1] = inp[i + 1]
               /\ WholeGap(inp[i], inp[i + 1]) <= 1

AllTimed(inp) == Len(inp) >= 2 /\ \A i \in 1..Len(inp) : Present(inp[i])

CadenceAny(inp, out) == AllTimed(inp) => OneSecondApart(inp, out)

CadenceWhole(inp, out) ==
    (AllTimed(inp) /\ \A i \in 1..Len(inp) : WholeSecond(inp[i]))
        => OneSecondApart(inp, out)

\* C3 as claimed: with every input point timestamped (fractions of a second
\* allowed), adjacent output points are exactly 1 second apart, but for the
\* two originals of an input pair with dt <= 1.
C3_CadenceSubSecond == ForAllSegs(CadenceAny)

\* C3 amended: the same, for input timestamps that are all whole seconds.
C3_CadenceWholeSecond == ForAllSegs(CadenceWhole)

C3_Case(inp, out) ==
    /\ Len(inp) = 3 /\ \A i \in 1..3 : WholeSecond(inp[i])
    /\ Fill(inp, 1) > 0 /\ WholeGap(inp[2], inp[3]) = 1
    /\ Len(out) > 3
C3_Witness == ForSomeSeg(C3_Case)

\* ------------------------------------------------------------------- C4
\* the new points of pair i are p(1) .. p(dt - 1), between cur and next
Inserted(inp, out, i, Good(_, _, _, _, _)) ==
    LET cur == inp[i]
        nxt == inp[i + 1]
        dt == WholeGap(cur, nxt)
        at == Pos(inp, i)
    IN  (BothPresent(inp, i) /\ dt > 1) =>
            /\ at + dt <= Len(out)
            /\ out[at] = cur
            /\ out[at + dt] = nxt
            /\ \A s \in 1..(dt - 1) : Good(out[at + s], cur, nxt, s, dt)

ExactPoint(p, cur, nxt, s, dt) ==
    /\ p.time = T(cur.time.v + s * TicksPerSec)
    /\ Exactly(p.lat, cur.lat, nxt.lat, s, dt)
    /\ Exactly(p.lon, cur.lon, nxt.lon, s, dt)

WrittenPoint(p, cur, nxt, s, dt) ==
    /\ WholeSecond(p)
    /\ p.time.v <= cur.time.v + s * TicksPerSec
    /\ cur.time.v + s * TicksPerSec < p.time.v + TicksPerSec
    /\ Nearest(p.lat, cur.lat, nxt.lat, s, dt)
    /\ Nearest(p.lon, cur.lon, nxt.lon, s, dt)

InterpolatedExactly(inp, out) ==
    \A i \in 1..(Len(inp) - 1) : Inserted(inp, out, i, ExactPoint)

InterpolatedAsWritten(inp, out) ==
    \A i \in 1..(Len(inp) - 1) : Inserted(inp, out, i, WrittenPoint)

\* C4 as claimed: for every pair with both timestamps and dt > 1 exactly the
\* points s = 1 .. dt-1 are inserted in order between cur and next, point s
\* with timestamp cur + s seconds and latitude and longitude exactly
\* a + (b - a) * s / dt.
C4_InterpolationExact == ForAllSegs(InterpolatedExactly)

\* C4 amended: the same points, point s with the timestamp cur + s seconds
\* cut to the whole second and latitude and longitude the multiples of
\* 10^-7 degree nearest to a + (b - a) * s / dt.
C4_InterpolationWritten == ForAllSegs(InterpolatedAsWritten)

C4_Case(inp, out) ==
    /\ Len(inp) = 2 /\ BothPresent(inp, 1)
    /\ WholeGap(inp[1], inp[2]) = 3
    /\ (inp[2].lat - inp[1].lat) % 3 # 0
    /\ Len(out) = 4
C4_Witness == ForSomeSeg(C4_Case)


\* ------------------------------------------------------------------- C5
UnparsablePair(inp, i) ==
    /\ ~(NoTimestamp(inp[i]) \/ NoTimestamp(inp[i + 1]))
    /\ inp[i].time.k = "bad" \/ inp[i + 1].time.k = "bad"

UnparsableLeftUnfilled(inp, out) ==
    \A i \in 1..(Len(inp) - 1) :
        UnparsablePair(inp, i) =>
            /\ Pos(inp, i) + 1 <= Len(out)
            /\ out[Pos(inp, i)] = inp[i]
            /\ out[Pos(inp, i) + 1] = inp[i + 1]

\* C5 as claimed: a <time> text that cannot be parsed never ends the run:
\* the pair is left unfilled and every later pair and segment is processed,
\* up to the output being written.
C5_UnparsableRecovered ==
    /\ pc # "raised"
    /\ ForAllSegs(UnparsableLeftUnfilled)

\* ------------------------------------------------------------------- C6
MissingPair(inp, i) == NoTimestamp(inp[i]) \/ NoTimestamp(inp[i + 1])

\* the points between original j and original j + 1 are new ones
FilledBetween(inp, out, j) ==
    \A s \in 1..Fill(inp, j) :
        LET p == out[Pos(inp, j) + s]
        IN  /\ Present(p)
            /\ inp[j].time.v < p.time.v
            /\ p.time.v < inp[j + 1].time.v

SkipsOnlyMissing(inp, out) ==
    (\E i \in 1..(Len(inp) - 1) : MissingPair(inp, i)) =>
        /\ OriginalsInPlace(inp, out)
        /\ \A i \in 1..(Len(inp) - 1) :
               /\ MissingPair(inp, i) =>
                      /\ out[Pos(inp, i)] = inp[i]
                      /\ out[Pos(inp, i) + 1] = inp[i + 1]
               /\ FilledBetween(inp, out, i)

\* C6: a pair with an absent or empty timestamp gets no new point, cur is
\* still copied, every other pair of the segment is filled as usual, and
\* such a pair never ends the run (a run ends only on an unparsable text).
C6_MissingSkipsOnePair ==
    /\ ForAllSegs(SkipsOnlyMissing)
    /\ pc = "raised" =>
           \E i \in 1..(Len(segs[si].pts) - 1) : UnparsablePair(segs[si].pts, i)

C6_Case(inp, out) ==
    /\ Len(inp) = 3
    /\ MissingPair(inp, 1) /\ Present(inp[2])
    /\ Fill(inp, 2) > 0
    /\ Len(out) = 3 + Fill(inp, 2)
C6_Witness == ForSomeSeg(C6_Case)

\* ------------------------------------------------------------------- C7
HasEle(tp) == tp.ele.k = "ok"

EleCarried(p, cur, nxt) ==
    /\ HasEle(p) <=> (HasEle(cur) /\ HasEle(nxt))
    /\ ~HasEle(p) => p.ele = Absent

ExactEle(p, cur, nxt, s, dt) ==
    /\ EleCarried(p, cur, nxt)
    /\ HasEle(p) => Exactly(p.ele.v, cur.ele.v, nxt.ele.v, s, dt)

WrittenEle(p, cur, nxt, s, dt) ==
    /\ EleCarried(p, cur, nxt)
    /\ HasEle(p) => Nearest(p.ele.v, cur.ele.v, nxt.ele.v, s, dt)

ElevationExactly(inp, out) ==
    \A i \in 1..(Len(inp) - 1) : Inserted(inp, out, i, ExactEle)

ElevationAsWritten(inp, out) ==
    \A i \in 1..(Len(inp) - 1) : Inserted(inp, out, i, WrittenEle)

\* C7 as claimed: a new point carries an elevation iff both endpoints have
\* a parsable one, and then it is exactly e1 + (e2 - e1) * s / dt.
C7_ElevationExact == ForAllSegs(ElevationExactly)

\* C7 amended: a new point carries an elevation iff both endpoints have a
\* parsable one, and then it is the multiple of 0.01 nearest to
\* e1 + (e2 - e1) * s / dt; otherwise it has no <ele>.
C7_ElevationWritten == ForAllSegs(ElevationAsWritten)

C7_Case(inp, out) ==
    /\ Len(inp) = 2 /\ Fill(inp, 1) = 2
    /\ HasEle(inp[1]) /\ HasEle(inp[2]) /\ inp[1].ele # inp[2].ele
    /\ Len(out) = 4 /\ HasEle(out[2])
C7_Witness == ForSomeSeg(C7_Case)

C7_BadCase(inp, out) ==
    /\ Len(inp) = 2 /\ Fill(inp, 1) > 0
    /\ inp[1].ele.k = "bad" /\ HasEle(inp[2])
    /\ Len(out) > 2 /\ out[2].ele = Absent
C7_UnparsableWitness == ForSomeSeg(C7_BadCase)

\* ------------------------------------------------------------------- C8
FixedPoint(inp, out) == interpolate_segment(out) = Returned(out)

\* C8 as claimed: interpolate_segment applied to its own result returns
\* that result.
C8_Idempotent == ForAllSegs(FixedPoint)

\* ------------------------------------------------------------------- C9
SamePlace(before, after) ==
    /\ Len(after) = Len(before)
    /\ \A p \in 1..Len(before) :
           IF IsSeg(before[p])
             THEN /\ IsSeg(after[p])
                  /\ after[p].pts = interpolate_segment(before[p].pts).pts
             ELSE after[p] = before[p]

\* C9 as claimed: every child of every track keeps its position, a segment
\* being replaced in place by its interpolated version.
C9_PositionsKept ==
    pc = "done" => \A t \in 1..Len(inFile) : SamePlace(inFile[t], outFile[t])

\* ------------------------------------------------------------------ C10
Warned == \E i \in 1..Len(stderr) : stderr[i] = "No <trkseg> found or no changes made."
NoSegment == \A t \in 1..Len(inFile) : InSegs(t) = <<>>
NothingInserted ==
    \A t \in 1..Len(inFile) : \A k \in 1..Len(InSegs(t)) :
        Len(OutSegs(t)[k].pts) = Len(InSegs(t)[k].pts)

\* C10 as claimed: a finished run has warned iff no segment was found or no
\* segment needed a new point; the output is written either way.
C10_WarnedIffUnchanged ==
    pc = "done" =>
        /\ Warned <=> (NoSegment \/ NothingInserted)
        /\ Len(stdout) = 1
        /\ Len(outFile) = Len(inFile)
=============================================================================
